---- MODULE Spec2Model ----
(***************************************************************************)
(* Model of the DIO driver (Autosar/Mcal/Io/Dio.c).                        *)
(*                                                                         *)
(* A machine word is modelled as the set of the positions of its 1 bits:   *)
(* a uint32 is a subset of 0..31, a uint8 a subset of 0..7.  Bitwise       *)
(* and/or/xor/not are then intersection, union, symmetric difference and   *)
(* complement, and a shift moves the positions and drops those that leave  *)
(* the word.  Bits(n) and Val(w) convert between numbers and words.        *)
(***************************************************************************)
EXTENDS Integers, FiniteSets, Sequences, TLC

(* ---------------------------- bounds ----------------------------------- *)
\* number of driver calls in one run of the sequential specification
MaxCalls == 2

(* ------------------------ words and registers -------------------------- *)
U32 == 0..31
U8 == 0..7
\* width of a port: the data registers implement bits 0..15 only
PortBits == 16
STD_LOW == 0
STD_HIGH == 1

\* the word holding the number n (n < 2^31)
Bits(n) == {i \in 0..30 : (n \div (2 ^ i)) % 2 = 1}
\* the uint8 holding the number n (n < 2^8)
Bits8(n) == {i \in U8 : (n \div (2 ^ i)) % 2 = 1}

RECURSIVE Val(_)
\* the number held by the word w (w within bits 0..30)
Val(w) == IF w = {} THEN 0
          ELSE LET i == CHOOSE j \in w : TRUE IN (2 ^ i) + Val(w \ {i})

\* the ports exercised: port A and port B of the register-block array
Ports == {0, 1}
Pins == {0, 7, 15}
\* channel IDs: port in the upper bits, pin in the low nibble
Channels == {16 * p + n : p \in Ports, n \in Pins}

\* 0x0000, 0xA5C3
InitVals == {Bits(0), Bits(42435)}
\* 0x0000, 0xFFFF, 0xAA55
PortLevels == {Bits(0), Bits(65535), Bits(43605)}
\* 0x55, 0xFFFF
GroupLevels == {Bits(85), Bits(65535)}
\* 0x00F0, 0x8001
PortMasks == {Bits(240), Bits(32769)}
\* 0xAA55, 0x0000
MaskedLevels == {Bits(43605), Bits(0)}
\* channel group descriptors: {Mask 0x00FF, Offset 2}, {Mask 0x03FC, Offset 2}
ChannelGroups == {[Mask |-> Bits(255), Offset |-> 2, Port |-> p] : p \in Ports}
                 \cup {[Mask |-> Bits(1020), Offset |-> 2, Port |-> p] : p \in Ports}

(* ------------------- bit manipulation library (Bfx) -------------------- *)
Bfx_ClrBitMask_u8u8(Data, Mask) == Data \ Mask
Bfx_ShiftBitRt_u8u8(Data, ShiftCnt) == {i - ShiftCnt : i \in {j \in Data : j >= ShiftCnt}}
Bfx_GetBit_u32u8_u8(Data, BitPn) == IF BitPn \in Data THEN STD_HIGH ELSE STD_LOW
Bfx_PutBit_u32u8u8(Data, BitPn, Status) ==
    IF Status # 0 THEN Data \cup {BitPn} ELSE Data \ {BitPn}
Bfx_ClrBitMask_u32u32(Data, Mask) == Data \ Mask
Bfx_SetBitMask_u32u32(Data, Mask) == Data \cup Mask
Bfx_ShiftBitRt_u32u8(Data, ShiftCnt) == {i - ShiftCnt : i \in {j \in Data : j >= ShiftCnt}}
Bfx_ShiftBitLt_u32u8(Data, ShiftCnt) == {i + ShiftCnt : i \in Data} \cap U32
Bfx_ToggleBitMask_u32u32(Data, Mask) == (Data \ Mask) \cup (Mask \ Data)
Bfx_PutBitsMask_u32u32u32(Data, Pattern, Mask) == (Data \ Mask) \cup (Pattern \cap Mask)
\* the C operator ~ on a uint32
Not32(w) == U32 \ w

(* ----------------------------- hardware -------------------------------- *)
\* a store to a data register keeps the implemented bits
RegStore(w) == w \cap (0..(PortBits - 1))
\* the input-data register of a port whose pins are driven by the output latch
PinState(odr) == odr

(* ------------------------------ state ---------------------------------- *)
VARIABLES
    ODR,      \* output-data register of each port
    IDR,      \* input-data register of each port
    last,     \* the driver call that ran last: arguments, ODR before it, result
    prev,     \* the driver call before that
    calls,    \* number of calls made
    main,     \* racing context 1: its call and its position in it
    isr,      \* racing context 2: its call and when it ran
    start     \* ODR at the start of the race

vars == <<ODR, IDR, last, prev, calls, main, isr, start>>

NoGroup == [Mask |-> {}, Offset |-> 0, Port |-> 0]
NoCall == [op |-> "none", ChannelId |-> 0, PortId |-> 0, Group |-> NoGroup,
           Level |-> {}, Mask |-> {}, pre |-> [p \in Ports |-> {}], ret |-> {}]
NoMain == [op |-> "none", ChannelId |-> 0, Level |-> 0, pc |-> "idle", Data |-> {}, ret |-> 0]
NoIsr == [op |-> "none", PortId |-> 0, Level |-> {}, Mask |-> {}, at |-> "idle"]

(* -------------------- the driver's functions --------------------------- *)
\* Pin = ChannelId with the high nibble cleared
ChannelPin(ChannelId) == Val(Bfx_ClrBitMask_u8u8(Bits8(ChannelId), Bits8(240)))
\* Port = ChannelId shifted right by 4
ChannelPort(ChannelId) == Val(Bfx_ShiftBitRt_u8u8(Bits8(ChannelId), 4))

ReadChannel(idr, ChannelId) ==
    Bfx_GetBit_u32u8_u8(idr[ChannelPort(ChannelId)], ChannelPin(ChannelId))

\* the pin taken from the whole channel ID, its port nibble not cleared
WriteChannel_RawPin(odr, ChannelId, Level) ==
    [odr EXCEPT ![ChannelPort(ChannelId)] =
        RegStore(Bfx_PutBit_u32u8u8(@, Val(Bits8(ChannelId)), Level))]

\* the register overwritten with the level at the pin instead of one bit put
WriteChannel_Clobber(odr, ChannelId, Level) ==
    [odr EXCEPT ![ChannelPort(ChannelId)] =
        RegStore(Bfx_ShiftBitLt_u32u8(Bits(Level), ChannelPin(ChannelId)))]

WriteChannel(odr, ChannelId, Level) ==
    [odr EXCEPT ![ChannelPort(ChannelId)] =
        RegStore(Bfx_PutBit_u32u8u8(@, ChannelPin(ChannelId), Level))]

ReadPort(idr, PortId) == idr[PortId]

\* the level ORed into the register instead of stored
WritePort_Or(odr, PortId, Level) ==
    [odr EXCEPT ![PortId] = RegStore(Bfx_SetBitMask_u32u32(@, Level))]

\* the level stored in every register block
WritePort_AllBlocks(odr, PortId, Level) == [p \in DOMAIN odr |-> RegStore(Level)]

WritePort(odr, PortId, Level) == [odr EXCEPT ![PortId] = RegStore(Level)]

ReadChannelGroup(idr, Group) ==
    Bfx_ShiftBitRt_u32u8(
        Bfx_ClrBitMask_u32u32(idr[Group.Port], Not32(Group.Mask)), Group.Offset)

WriteChannelGroup(odr, Group, Level) ==
    LET cleared == RegStore(Bfx_ClrBitMask_u32u32(odr[Group.Port], Group.Mask))
        shifted == Bfx_ShiftBitLt_u32u8(Level, Group.Offset)
    IN  [odr EXCEPT ![Group.Port] = RegStore(Bfx_SetBitMask_u32u32(cleared, shifted))]

\* the pin set instead of toggled
FlipChannel_Set(odr, ChannelId) ==
    [odr EXCEPT ![ChannelPort(ChannelId)] =
        RegStore(Bfx_SetBitMask_u32u32(@, {ChannelPin(ChannelId)}))]

\* the pin number passed as the mask instead of 1u << Pin
FlipChannel_PinAsMask(odr, ChannelId) ==
    [odr EXCEPT ![ChannelPort(ChannelId)] =
        RegStore(Bfx_ToggleBitMask_u32u32(@, Bits(ChannelPin(ChannelId))))]

FlipChannel(odr, ChannelId) ==
    [odr EXCEPT ![ChannelPort(ChannelId)] =
        RegStore(Bfx_ToggleBitMask_u32u32(@, {ChannelPin(ChannelId)}))]

\* Level and Mask passed to the library in the other order
MaskedWritePort_Swapped(odr, PortId, Level, Mask) ==
    [odr EXCEPT ![PortId] = RegStore(Bfx_PutBitsMask_u32u32u32(@, Mask, Level))]

MaskedWritePort(odr, PortId, Level, Mask) ==
    [odr EXCEPT ![PortId] = RegStore(Bfx_PutBitsMask_u32u32u32(@, Level, Mask))]

Mirror(odr) == [p \in Ports |-> PinState(odr[p])]

(* ------------- sequential specification: one call per step ------------- *)
Init ==
    /\ ODR \in [Ports -> InitVals]
    /\ IDR = Mirror(ODR)
    /\ last = NoCall
    /\ prev = NoCall
    /\ calls = 0
    /\ main = NoMain
    /\ isr = NoIsr
    /\ start = [p \in Ports |-> {}]

\* a call that leaves newODR in the registers and is recorded as rec
Call(rec, newODR) ==
    /\ calls < MaxCalls
    /\ ODR' = newODR
    /\ IDR' = Mirror(newODR)
    /\ last' = [rec EXCEPT !.pre = ODR]
    /\ prev' = last
    /\ calls' = calls + 1
    /\ UNCHANGED <<main, isr, start>>

Dio_ReadChannel ==
    \E c \in Channels :
        Call([NoCall EXCEPT !.op = "ReadChannel", !.ChannelId = c,
                            !.ret = Bits(ReadChannel(IDR, c))], ODR)

Dio_WriteChannel ==
    \E c \in Channels, l \in {STD_LOW, STD_HIGH} :
        Call([NoCall EXCEPT !.op = "WriteChannel", !.ChannelId = c, !.Level = Bits(l)],
             WriteChannel(ODR, c, l))

Dio_ReadPort ==
    \E p \in Ports :
        Call([NoCall EXCEPT !.op = "ReadPort", !.PortId = p, !.ret = ReadPort(IDR, p)], ODR)

Dio_WritePort ==
    \E p \in Ports, l \in PortLevels :
        Call([NoCall EXCEPT !.op = "WritePort", !.PortId = p, !.Level = l],
             WritePort(ODR, p, l))

Dio_ReadChannelGroup ==
    \E g \in ChannelGroups :
        Call([NoCall EXCEPT !.op = "ReadChannelGroup", !.Group = g,
                            !.ret = ReadChannelGroup(IDR, g)], ODR)

Dio_WriteChannelGroup ==
    \E g \in ChannelGroups, l \in GroupLevels :
        Call([NoCall EXCEPT !.op = "WriteChannelGroup", !.Group = g, !.Level = l],
             WriteChannelGroup(ODR, g, l))

Dio_FlipChannel ==
    \E c \in Channels :
        LET newODR == FlipChannel(ODR, c)
        IN  Call([NoCall EXCEPT !.op = "FlipChannel", !.ChannelId = c,
                                !.ret = Bits(ReadChannel(Mirror(newODR), c))], newODR)

Dio_MaskedWritePort ==
    \E p \in Ports, l \in MaskedLevels, m \in PortMasks :
        Call([NoCall EXCEPT !.op = "MaskedWritePort", !.PortId = p, !.Level = l, !.Mask = m],
             MaskedWritePort(ODR, p, l, m))

Next ==
    \/ Dio_ReadChannel
    \/ Dio_WriteChannel
    \/ Dio_ReadPort
    \/ Dio_WritePort
    \/ Dio_ReadChannelGroup
    \/ Dio_WriteChannelGroup
    \/ Dio_FlipChannel
    \/ Dio_MaskedWritePort

Spec == Init /\ [][Next]_vars

TypeOK ==
    /\ ODR \in [Ports -> SUBSET (0..(PortBits - 1))]
    /\ IDR = Mirror(ODR)
    /\ calls \in 0..MaxCalls
(* ----------------------- properties: sequential ------------------------ *)
WriteOps == {"WriteChannel", "WritePort", "WriteChannelGroup", "FlipChannel",
             "MaskedWritePort"}
PortRange == 0..(PortBits - 1)
\* the port a call is addressed to, by the channel-ID rule port = c >> 4
TargetPort(call) ==
    CASE call.op \in {"ReadChannel", "WriteChannel", "FlipChannel"} -> call.ChannelId \div 16
      [] call.op \in {"ReadChannelGroup", "WriteChannelGroup"} -> call.Group.Port
      [] OTHER -> call.PortId
\* the pin a channel call is addressed to, by the rule pin = c & 0x0F
TargetPin(call) == call.ChannelId % 16
\* the bits of the port a group covers: Mask << Offset
GroupBits(g) == {i + g.Offset : i \in g.Mask}
LedBar(g) == g.Mask = Bits(255) /\ g.Offset = 2

\* C1: for a group with Mask=0x00FF, Offset=2, Write Channel Group(group, 0x55)
\* followed by Read Channel Group(group) returns 0x55.
C1_GroupRoundTrip ==
    (/\ prev.op = "WriteChannelGroup" /\ last.op = "ReadChannelGroup"
     /\ prev.Group = last.Group /\ LedBar(last.Group) /\ prev.Level = Bits(85))
    => last.ret = Bits(85)

\* C2: Write Channel Group leaves every bit of the port's output-data register
\* outside (Mask << Offset) equal to its value before the call.
C2_GroupWriteFrame ==
    last.op = "WriteChannelGroup"
    => \A i \in PortRange \ GroupBits(last.Group) :
          (i \in ODR[last.Group.Port]) <=> (i \in last.pre[last.Group.Port])

\* C3: Write Channel(c, HIGH) followed by Read Channel(c) returns HIGH, and
\* followed by Read Port(c >> 4) returns a value whose bit (c & 0x0F) is 1.
C3_WriteHighThenRead ==
    (prev.op = "WriteChannel" /\ prev.Level = Bits(STD_HIGH))
    => /\ (last.op = "ReadChannel" /\ last.ChannelId = prev.ChannelId)
            => last.ret = Bits(STD_HIGH)
       /\ (last.op = "ReadPort" /\ last.PortId = TargetPort(prev))
            => TargetPin(prev) \in last.ret
C3_Witness ==
    /\ prev.op = "WriteChannel" /\ prev.Level = Bits(STD_HIGH)
    /\ last.op = "ReadChannel" /\ last.ChannelId = prev.ChannelId
    /\ TargetPin(prev) \notin prev.pre[TargetPort(prev)]
    /\ last.ret = Bits(STD_HIGH)

\* C4: Write Channel(c, level) makes bit (c & 0x0F) of the output-data register
\* of port (c >> 4) equal to level and leaves every other bit of that register
\* as it was before the call.
C4_WriteChannelOneBit ==
    last.op = "WriteChannel"
    => \A i \in PortRange :
          (i \in ODR[TargetPort(last)]) <=>
              IF i = TargetPin(last) THEN last.Level = Bits(STD_HIGH)
              ELSE i \in last.pre[TargetPort(last)]
C4_Witness ==
    /\ last.op = "WriteChannel"
    /\ ODR[TargetPort(last)] # last.pre[TargetPort(last)]
    /\ ODR[TargetPort(last)] \ {TargetPin(last)} # {}

\* C5: after Masked Write Port(p, value, mask) bit i of port p's output-data
\* register is bit i of value where mask has bit i set, and its value before the
\* call where mask has bit i clear.
C5_MaskedWriteBits ==
    last.op = "MaskedWritePort"
    => \A i \in PortRange :
          (i \in ODR[last.PortId]) <=>
              IF i \in last.Mask THEN i \in last.Level ELSE i \in last.pre[last.PortId]
C5_Witness ==
    /\ last.op = "MaskedWritePort"
    /\ ODR[last.PortId] # last.pre[last.PortId]
    /\ ODR[last.PortId] \ last.Mask # {}

\* C6: Flip Channel(c) twice in succession restores the level of the pin and
\* the content of the output-data registers from before the first call.
C6_FlipTwice ==
    (prev.op = "FlipChannel" /\ last.op = "FlipChannel" /\ prev.ChannelId = last.ChannelId)
    => /\ ODR = prev.pre
       /\ (TargetPin(last) \in IDR[TargetPort(last)])
            <=> (TargetPin(last) \in prev.pre[TargetPort(last)])
C6_Witness ==
    /\ prev.op = "FlipChannel" /\ last.op = "FlipChannel"
    /\ prev.ChannelId = last.ChannelId
    /\ last.pre # prev.pre
    /\ ODR = prev.pre

\* C7: Write Port(p, v) followed by Read Port(p) returns exactly v, for v a
\* 16-bit value.
C7_WritePortThenRead ==
    (prev.op = "WritePort" /\ last.op = "ReadPort" /\ prev.PortId = last.PortId)
    => last.ret = prev.Level
C7_Witness ==
    /\ prev.op = "WritePort" /\ last.op = "ReadPort" /\ prev.PortId = last.PortId
    /\ prev.pre[prev.PortId] \ prev.Level # {}
    /\ last.ret = prev.Level

\* C8: Flip Channel(c) inverts bit (c & 0x0F) of the output-data register of port
\* (c >> 4), leaves the other bits of that register as they were, and returns
\* the level of the pin after the toggle, the opposite of its level before.
C8_FlipOneBit ==
    last.op = "FlipChannel"
    => /\ \A i \in PortRange :
             (i \in ODR[TargetPort(last)]) <=>
                 IF i = TargetPin(last) THEN i \notin last.pre[TargetPort(last)]
                 ELSE i \in last.pre[TargetPort(last)]
       /\ last.ret = Bits(IF TargetPin(last) \in last.pre[TargetPort(last)]
                          THEN STD_LOW ELSE STD_HIGH)
C8_Witness ==
    /\ last.op = "FlipChannel"
    /\ last.ret = Bits(STD_LOW)
    /\ ODR[TargetPort(last)] # {}

\* C10: the output-data register of a port q changes only in a step that is a
\* write operation addressed to q; the read operations change no register and a
\* write addressed to p changes no register of another port.
C10_OdrFrame ==
    [][\A q \in Ports :
          ODR'[q] # ODR[q] => (last'.op \in WriteOps /\ TargetPort(last') = q)]_vars
C10_Witness ==
    /\ last.op \in WriteOps
    /\ ODR[TargetPort(last)] # last.pre[TargetPort(last)]
    /\ \A q \in Ports \ {TargetPort(last)} : ODR[q] = last.pre[q] /\ ODR[q] # {}
(* ------ race specification: a channel call preempted by a port write ---- *)
(* The library call of Write Channel / Flip Channel works on the register   *)
(* through a pointer: it loads the register, changes the loaded word and    *)
(* stores it back.  The main-line context runs these steps one by one; the  *)
(* interrupt context runs its whole port write at any point between them.   *)
MainCalls ==
    {[NoMain EXCEPT !.op = "WriteChannel", !.ChannelId = c, !.Level = l, !.pc = "call"] :
        c \in Channels, l \in {STD_LOW, STD_HIGH}}
    \cup {[NoMain EXCEPT !.op = "FlipChannel", !.ChannelId = c, !.pc = "call"] :
        c \in Channels}
IsrCalls ==
    {[NoIsr EXCEPT !.op = "WritePort", !.PortId = p, !.Level = l, !.at = "pending"] :
        p \in Ports, l \in PortLevels}
    \cup {[NoIsr EXCEPT !.op = "MaskedWritePort", !.PortId = p, !.Level = l, !.Mask = m,
                        !.at = "pending"] : p \in Ports, l \in MaskedLevels, m \in PortMasks}

InitRace ==
    /\ ODR \in [Ports -> InitVals]
    /\ IDR = Mirror(ODR)
    /\ start = ODR
    /\ main \in MainCalls
    /\ isr \in IsrCalls
    /\ last = NoCall
    /\ prev = NoCall
    /\ calls = 0

\* the word the library loads through the pointer to the port's register
RegisterLoad(odr, ChannelId) == odr[ChannelPort(ChannelId)]

\* the store of a bit write that does not depend on the word loaded before
WriteChannelStore_Atomic(odr, Data, ChannelId, Level) ==
    [odr EXCEPT ![ChannelPort(ChannelId)] =
        RegStore(Bfx_PutBit_u32u8u8(@, ChannelPin(ChannelId), Level))]

\* the store that ends Write Channel: the loaded word with the pin's bit put
WriteChannelStore(odr, Data, ChannelId, Level) ==
    [odr EXCEPT ![ChannelPort(ChannelId)] =
        RegStore(Bfx_PutBit_u32u8u8(Data, ChannelPin(ChannelId), Level))]

\* the store of Flip Channel: the loaded word with the pin's bit toggled
FlipChannelStore(odr, Data, ChannelId) ==
    [odr EXCEPT ![ChannelPort(ChannelId)] =
        RegStore(Bfx_ToggleBitMask_u32u32(Data, {ChannelPin(ChannelId)}))]

MainLoad ==
    /\ main.pc = "call"
    /\ main' = [main EXCEPT !.pc = "loaded", !.Data = RegisterLoad(ODR, main.ChannelId)]
    /\ UNCHANGED <<ODR, IDR, last, prev, calls, isr, start>>

MainWriteChannelStore ==
    /\ main.pc = "loaded" /\ main.op = "WriteChannel"
    /\ ODR' = WriteChannelStore(ODR, main.Data, main.ChannelId, main.Level)
    /\ IDR' = Mirror(ODR')
    /\ main' = [main EXCEPT !.pc = "done"]
    /\ UNCHANGED <<last, prev, calls, isr, start>>

MainFlipChannelStore ==
    /\ main.pc = "loaded" /\ main.op = "FlipChannel"
    /\ ODR' = FlipChannelStore(ODR, main.Data, main.ChannelId)
    /\ IDR' = Mirror(ODR')
    /\ main' = [main EXCEPT !.pc = "stored"]
    /\ UNCHANGED <<last, prev, calls, isr, start>>

MainFlipChannelReturn ==
    /\ main.pc = "stored"
    /\ main' = [main EXCEPT !.pc = "done", !.ret = ReadChannel(IDR, main.ChannelId)]
    /\ UNCHANGED <<ODR, IDR, last, prev, calls, isr, start>>

\* where in the main-line call the interrupt ran
IsrPoint == CASE main.pc = "call" -> "before"
              [] main.pc = "loaded" -> "between"
              [] OTHER -> "after"

IsrWritePort ==
    /\ isr.at = "pending" /\ isr.op = "WritePort"
    /\ ODR' = WritePort(ODR, isr.PortId, isr.Level)
    /\ IDR' = Mirror(ODR')
    /\ isr' = [isr EXCEPT !.at = IsrPoint]
    /\ UNCHANGED <<last, prev, calls, main, start>>

IsrMaskedWritePort ==
    /\ isr.at = "pending" /\ isr.op = "MaskedWritePort"
    /\ ODR' = MaskedWritePort(ODR, isr.PortId, isr.Level, isr.Mask)
    /\ IDR' = Mirror(ODR')
    /\ isr' = [isr EXCEPT !.at = IsrPoint]
    /\ UNCHANGED <<last, prev, calls, main, start>>

NextRace ==
    \/ MainLoad
    \/ MainWriteChannelStore
    \/ MainFlipChannelStore
    \/ MainFlipChannelReturn
    \/ IsrWritePort
    \/ IsrMaskedWritePort

SpecRace == InitRace /\ [][NextRace]_vars

(* -------------------------- properties: race --------------------------- *)
\* what each of the two calls does to the registers when it runs alone
MainEffect(odr) ==
    IF main.op = "WriteChannel" THEN WriteChannel(odr, main.ChannelId, main.Level)
    ELSE FlipChannel(odr, main.ChannelId)
IsrEffect(odr) ==
    IF isr.op = "WritePort" THEN WritePort(odr, isr.PortId, isr.Level)
    ELSE MaskedWritePort(odr, isr.PortId, isr.Level, isr.Mask)
MainThenIsr == IsrEffect(MainEffect(start))
IsrThenMain == MainEffect(IsrEffect(start))
RacePort == main.ChannelId \div 16
RacePin == main.ChannelId % 16
SymDiff(a, b) == (a \ b) \cup (b \ a)
\* the port write changes a bit of the port other than the addressed pin
IsrChangesOtherBit ==
    SymDiff(IsrEffect(start)[RacePort], start[RacePort]) \ {RacePin} # {}
RaceOver == main.pc = "done" /\ isr.at # "pending"

\* C9: Write Channel and Flip Channel are read-modify-write sequences that a
\* port write of another context can split.  When both calls are over and the
\* port write to the same port ran between the load and the store, the register
\* holds what the channel call alone makes of the starting content; if the port
\* write changed a bit other than the addressed pin, that is the result of
\* neither serial order.  A port write that ran before or after the channel
\* call leaves the result of the corresponding serial order.
C9_LostUpdate ==
    (RaceOver /\ isr.PortId = RacePort)
    => /\ isr.at = "between"
            => /\ ODR[RacePort] = MainEffect(start)[RacePort]
               /\ IsrChangesOtherBit
                    => ODR[RacePort] \notin {MainThenIsr[RacePort], IsrThenMain[RacePort]}
       /\ isr.at = "before" => ODR = IsrThenMain
       /\ isr.at = "after" => ODR = MainThenIsr
C9_Witness ==
    /\ RaceOver /\ isr.PortId = RacePort /\ isr.at = "between"
    /\ main.op = "WriteChannel" /\ isr.op = "WritePort"
    /\ ODR[RacePort] \notin {MainThenIsr[RacePort], IsrThenMain[RacePort]}
C9_WitnessFlip ==
    /\ RaceOver /\ isr.PortId = RacePort /\ isr.at = "between"
    /\ main.op = "FlipChannel" /\ isr.op = "MaskedWritePort"
    /\ ODR[RacePort] \notin {MainThenIsr[RacePort], IsrThenMain[RacePort]}
====
